---- MODULE Spec2Model ----
(***************************************************************************)
(* Model of the analysis scripts of week3-4-project-network-dynamics:      *)
(*   s3.py         rank distributions, Spotify/YouTube matcher, correlation*)
(*   s1.py         load_youtube_from_zip                                   *)
(*   ass2.py       choose_target_titles, load_view_time_series             *)
(*   a5_analyze.py rank lists of the collected dataset                     *)
(*                                                                         *)
(* Text is modelled as a sequence of one-character strings, so that        *)
(* lower(), split(","), strip(), substring containment, int() and          *)
(* strptime("%Y%m%d") are computed and not assumed.                        *)
(***************************************************************************)
EXTENDS Integers, Sequences, FiniteSets, TLC

VARIABLES
    pc,            \* position of the running script
    err,           \* the exception that ended the run, or "none"
    videos,        \* one snapshot: the list of video objects of one document
    yt_sorted,     \* s3.compare_spotify_youtube_rankings: yt_sorted
    yt_rank,       \* s3.compare_spotify_youtube_rankings: yt_rank (id -> rank)
    views_sorted,  \* s3.plot_viewcount_distributions / a5_analyze: sorted views
    ranks,         \* s3.plot_viewcount_distributions / a5_analyze: ranks
    titles,        \* ass2.choose_target_titles: titles
    xs,            \* s3._spearman_correlation: xs (Spotify ranks)
    ys,            \* s3._spearman_correlation: ys (YouTube ranks)
    corr,          \* s3._spearman_correlation: the value returned
    yt_zip,        \* the members of data/youtube_top100.zip, in archive order
    sp_zip,        \* the members of data/spotify_top100.zip, in archive order
    yt_days,       \* list(iter_youtube_days(YOUTUBE_ZIP))
    sp_days,       \* list(iter_spotify_days(SPOTIFY_ZIP))
    rows,          \* s1.load_youtube_from_zip / ass2.load_view_time_series: rows
    yt_videos,     \* s3._build_spotify_youtube_mapping: yt_videos (reference day)
    sp_tracks,     \* s3._build_spotify_youtube_mapping: sp_tracks (reference day)
    mapping,       \* s3: mapping (spotify_id -> youtube_id)
    t_idx,         \* s3.py:301  the place of the loop over sp_tracks
    best_yt_id,    \* s3.py:306  best_yt_id of the track matched last
    selected_dates,\* s3.compare_spotify_youtube_rankings: selected_dates
    d_idx,         \* s3.py:394  the place of the loop over selected_dates
    num_days,      \* s3.py:222, 389  num_days, after min() with the number of days
    indices,       \* s3.py:224, 390  indices
    plots,         \* the scatter plots saved: date and correlation
    exists,        \* os.path.exists(path) of the source a loader is handed
    opened,        \* the source has been opened for reading
    api_key,       \* os.getenv("YOUTUBE_API_KEY")
    client_built,  \* build("youtube", "v3", developerKey=...) has returned
    n_requests,    \* the requests issued with request.execute()
    video_ids,     \* a5_collect.search_video_ids: video_ids
    seen_ids,      \* a5_collect.search_video_ids: seen_ids
    page_token,    \* a5_collect.search_video_ids: page_token
    response,      \* a5_collect.search_video_ids: response of the last request
    batch_start,   \* a5_collect.fetch_video_details: i of the loop over batches
    fetched,       \* a5_collect.fetch_video_details: videos
    saved          \* a5_collect.save_dataset has written the dataset

rankVars == <<videos, yt_sorted, yt_rank, views_sorted, ranks, titles>>
corrVars == <<xs, ys, corr>>
zipVars == <<yt_zip, sp_zip>>
loadVars == <<yt_days, sp_days, rows>>
mapVars == <<yt_videos, sp_tracks, mapping, t_idx, best_yt_id>>
dayVars == <<selected_dates, d_idx, plots, num_days, indices>>
cmpVars == <<mapVars, dayVars>>
srcVars == <<exists, opened>>
searchVars == <<video_ids, seen_ids, page_token, response>>
colVars == <<api_key, client_built, n_requests, searchVars, batch_start, fetched, saved>>

vars == <<pc, err, rankVars, corrVars, zipVars, colVars, srcVars, loadVars, cmpVars>>

(***************************************************************************)
(* Bounds of the model.                                                    *)
(***************************************************************************)
MaxRecs == 4      \* longest snapshot whose ranks are enumerated
MaxLen == 3       \* longest rank sequence handed to the correlation
MaxRankVal == 3   \* largest rank value in such a sequence
MaxMembers == 3   \* most members of an archive handed to the loaders
MaxVideos == 2    \* most videos of a document handed to the matcher
MaxTracks == 2    \* most tracks of a playlist handed to the matcher
MaxItems == 2     \* most records handed to a reader of numeric fields
MaxRequests == 4  \* n_requests counts the requests up to this number

(***************************************************************************)
(* Text.                                                                   *)
(***************************************************************************)
Missing == <<"<missing>">>  \* a key that is absent from a JSON object
None == "<None>"            \* Python's None, where an id is expected

Digits == {"0", "1", "2", "3", "4", "5", "6", "7", "8", "9"}

DigitVal(c) ==
    CASE c = "0" -> 0 [] c = "1" -> 1 [] c = "2" -> 2 [] c = "3" -> 3
      [] c = "4" -> 4 [] c = "5" -> 5 [] c = "6" -> 6 [] c = "7" -> 7
      [] c = "8" -> 8 [] c = "9" -> 9

\* str.isdigit(): non-empty and every character a digit
IsDigitStr(s) == Len(s) > 0 /\ \A i \in 1..Len(s) : s[i] \in Digits

RECURSIVE DecimalValue(_)
DecimalValue(s) ==
    IF Len(s) = 0 THEN 0
    ELSE 10 * DecimalValue(SubSeq(s, 1, Len(s) - 1)) + DigitVal(s[Len(s)])

\* int(x) of a JSON string: its value, or the exception it raises
IntOf(s) ==
    IF s = Missing THEN [ok |-> FALSE, exc |-> "KeyError", val |-> 0]
    ELSE IF IsDigitStr(s) THEN [ok |-> TRUE, exc |-> "none", val |-> DecimalValue(s)]
    ELSE [ok |-> FALSE, exc |-> "ValueError", val |-> 0]

(***************************************************************************)
(* str and os.path operations.                                             *)
(***************************************************************************)
\* the characters of the model's strings, in code-point order
Ascii ==
    <<" ", "(", ")", ",", "-", ".", "/",
      "0", "1", "2", "3", "4", "5", "6", "7", "8", "9",
      "A", "B", "C", "D", "E", "F", "G", "H", "I", "J", "K", "L", "M",
      "N", "O", "P", "Q", "R", "S", "T", "U", "V", "W", "X", "Y", "Z", "_",
      "a", "b", "c", "d", "e", "f", "g", "h", "i", "j", "k", "l", "m",
      "n", "o", "p", "q", "r", "s", "t", "u", "v", "w", "x", "y", "z">>

Ord(c) == CHOOSE i \in 1..Len(Ascii) : Ascii[i] = c

UpperCase == {Ascii[i] : i \in Ord("A")..Ord("Z")}

\* "a" stands Ord("a") - Ord("A") places behind "A"
LowerChar(c) == IF c \in UpperCase THEN Ascii[Ord(c) + (Ord("a") - Ord("A"))] ELSE c

\* str.lower()
Lower(s) == [i \in 1..Len(s) |-> LowerChar(s[i])]

\* s[i:i+len(t)] == t
MatchAt(s, t, i) ==
    /\ i + Len(t) - 1 <= Len(s)
    /\ \A k \in 1..Len(t) : s[i + k - 1] = t[k]

\* t in s
Contains(s, t) == \E i \in 1..(Len(s) + 1) : MatchAt(s, t, i)

\* s.endswith(t)
EndsWith(s, t) == Len(t) <= Len(s) /\ MatchAt(s, t, Len(s) - Len(t) + 1)

\* str.strip(): blanks at both ends removed
RECURSIVE Strip(_)
Strip(s) ==
    IF Len(s) = 0 THEN s
    ELSE IF s[1] = " " THEN Strip(Tail(s))
    ELSE IF s[Len(s)] = " " THEN Strip(SubSeq(s, 1, Len(s) - 1))
    ELSE s

\* s.split(c): the pieces between the occurrences of the character c
RECURSIVE SplitFrom(_, _, _, _)
SplitFrom(s, c, i, piece) ==
    IF i > Len(s) THEN <<piece>>
    ELSE IF s[i] = c THEN <<piece>> \o SplitFrom(s, c, i + 1, <<>>)
    ELSE SplitFrom(s, c, i + 1, Append(piece, s[i]))

Split(s, c) == SplitFrom(s, c, 1, <<>>)

\* os.path.basename: what follows the last "/"
Basename(name) ==
    LET parts == Split(name, "/")
    IN  parts[Len(parts)]

\* a < b for two strings
RECURSIVE LexLess(_, _)
LexLess(a, b) ==
    IF Len(b) = 0 THEN FALSE
    ELSE IF Len(a) = 0 THEN TRUE
    ELSE IF a[1] # b[1] THEN Ord(a[1]) < Ord(b[1])
    ELSE LexLess(Tail(a), Tail(b))

\* sorted() of a list of strings
RECURSIVE InsertString(_, _)
InsertString(s, e) ==
    IF Len(s) = 0 THEN <<e>>
    ELSE IF LexLess(e, s[Len(s)])
         THEN Append(InsertString(SubSeq(s, 1, Len(s) - 1), e), s[Len(s)])
         ELSE Append(s, e)

RECURSIVE SortedStrings(_)
SortedStrings(s) ==
    IF Len(s) = 0 THEN <<>>
    ELSE InsertString(SortedStrings(SubSeq(s, 1, Len(s) - 1)), s[Len(s)])

(***************************************************************************)
(* datetime.strptime(s, "%Y%m%d").date().  The format compiles to the      *)
(* regular expression                                                      *)
(*   (\d\d\d\d)(1[0-2]|0[1-9]|[1-9])(3[01]|[12]\d|0[1-9]|[1-9]| [1-9])     *)
(* which is matched at the start of s with backtracking; text left over    *)
(* after the match, no match, or a day the month does not have raise       *)
(* ValueError.                                                             *)
(***************************************************************************)
DigitAt(s, i) == i <= Len(s) /\ s[i] \in Digits

\* the month alternative of width w matches at i
MonthAt(s, i, w) ==
    IF w = 2
    THEN /\ i + 1 <= Len(s)
         /\ \/ s[i] = "1" /\ s[i + 1] \in {"0", "1", "2"}
            \/ s[i] = "0" /\ s[i + 1] \in Digits \ {"0"}
    ELSE i <= Len(s) /\ s[i] \in Digits \ {"0"}

\* the day alternative of width w matches at i
DayAt(s, i, w) ==
    IF w = 2
    THEN /\ i + 1 <= Len(s)
         /\ \/ s[i] = "3" /\ s[i + 1] \in {"0", "1"}
            \/ s[i] \in {"1", "2"} /\ s[i + 1] \in Digits
            \/ s[i] = "0" /\ s[i + 1] \in Digits \ {"0"}
            \/ s[i] = " " /\ s[i + 1] \in Digits \ {"0"}
    ELSE i <= Len(s) /\ s[i] \in Digits \ {"0"}

\* the widths <<month, day>> in the order the alternatives are tried
WidthOrder == << <<2, 2>>, <<2, 1>>, <<1, 2>>, <<1, 1>> >>

IsLeap(y) == (y % 4 = 0 /\ y % 100 # 0) \/ y % 400 = 0

DaysIn(y, m) ==
    IF m = 2 THEN (IF IsLeap(y) THEN 29 ELSE 28)
    ELSE IF m \in {4, 6, 9, 11} THEN 30 ELSE 31

NoDate == [ok |-> FALSE, y |-> 0, m |-> 0, d |-> 0]

DayValue(s) == IF s[1] = " " THEN DecimalValue(Tail(s)) ELSE DecimalValue(s)

strptime(s) ==
    IF ~(\A i \in 1..4 : DigitAt(s, i)) THEN NoDate
    ELSE LET fits == {k \in 1..4 :
                        /\ MonthAt(s, 5, WidthOrder[k][1])
                        /\ DayAt(s, 5 + WidthOrder[k][1], WidthOrder[k][2])}
         IN  IF fits = {} THEN NoDate
             ELSE LET k == CHOOSE x \in fits : \A z \in fits : x <= z
                      mw == WidthOrder[k][1]
                      dw == WidthOrder[k][2]
                      y == DecimalValue(SubSeq(s, 1, 4))
                      m == DecimalValue(SubSeq(s, 5, 4 + mw))
                      d == DayValue(SubSeq(s, 5 + mw, 4 + mw + dw))
                  IN  IF 4 + mw + dw # Len(s) THEN NoDate
                      ELSE IF y < 1 \/ d > DaysIn(y, m) THEN NoDate
                      ELSE [ok |-> TRUE, y |-> y, m |-> m, d |-> d]

\* the order of datetime.date values
DateKey(date) == date.y * 10000 + date.m * 100 + date.d

(***************************************************************************)
(* Inputs: the video objects of the YouTube documents.                     *)
(***************************************************************************)
VideoIds == {"b1", "b2", "b3"}

TitleOf(id) ==
    CASE id = "b1" -> <<"A", "d", "e", "l", "e", " ", "-", " ", "H", "e", "l", "l", "o", " ",
                        "(", "O", "f", "f", "i", "c", "i", "a", "l", " ", "V", "i", "d", "e", "o", ")">>
      [] id = "b2" -> <<"S", "o", "m", "e", "o", "n", "e", " ", "-", " ",
                        "H", "e", "l", "l", "o", " ", "T", "h", "e", "r", "e">>
      [] id = "b3" -> <<"D", "r", "a", "k", "e", " ", "-", " ",
                        "H", "o", "t", "l", "i", "n", "e", " ", "B", "l", "i", "n", "g">>
      [] id = "b4" -> <<"N", "a", "s", " ", "-", " ", "O", "n", "e", " ", "M", "i", "c">>
      [] id = "b5" -> <<"C", "o", "m", "m", "o", "n", " ", "-", " ", "B", "e">>

\* the viewCount strings of statistics: "2", "10", not a number, or absent
ViewCountPool == {<<"2">>, <<"1", "0">>, <<"x">>, Missing}

\* a video object: id and statistics.viewCount; snippet.title is Title(v)
Video(id, vc) == [id |-> id, viewCount |-> vc]

Title(v) == TitleOf(v.id)

VideoPool == {Video(id, vc) : id \in VideoIds, vc \in ViewCountPool}

SeqsUpTo(S, n) == UNION {[1..k -> S] : k \in 0..n}

(***************************************************************************)
(* Sorting.  list.sort()/sorted() is a stable ascending sort on a key;     *)
(* reverse=True reverses the list, sorts it, and reverses the result,      *)
(* which is how CPython keeps a descending sort stable.                    *)
(***************************************************************************)
Reverse(s) == [i \in 1..Len(s) |-> s[Len(s) + 1 - i]]

\* insert e behind every element whose key is <= e.key
RECURSIVE InsertStable(_, _)
InsertStable(s, e) ==
    IF Len(s) = 0 THEN <<e>>
    ELSE IF s[Len(s)].key <= e.key THEN Append(s, e)
    ELSE Append(InsertStable(SubSeq(s, 1, Len(s) - 1), e), s[Len(s)])

RECURSIVE StableSort(_)
StableSort(s) ==
    IF Len(s) = 0 THEN <<>>
    ELSE InsertStable(StableSort(SubSeq(s, 1, Len(s) - 1)), s[Len(s)])

\* sorted(s, reverse=True) without the reversal before the sort
SortedDescUnstable(s) == Reverse(StableSort(s))

\* sorted(s, key=..., reverse=True) on a list of [key, val] pairs
SortedDesc(s) == Reverse(StableSort(Reverse(s)))

Vals(s) == [i \in 1..Len(s) |-> s[i].val]

(***************************************************************************)
(* s3.compare_spotify_youtube_rankings, lines 399-405: the rank table.     *)
(***************************************************************************)
ViewKeys(vs) ==
    [i \in 1..Len(vs) |-> [key |-> IntOf(vs[i].viewCount).val, val |-> vs[i]]]

\* the first exception int(v["statistics"]["viewCount"]) raises, or "none"
FirstViewError(vs) ==
    IF \A i \in 1..Len(vs) : IntOf(vs[i].viewCount).ok THEN "none"
    ELSE LET i == CHOOSE j \in 1..Len(vs) :
                    /\ ~IntOf(vs[j].viewCount).ok
                    /\ \A k \in 1..(j - 1) : IntOf(vs[k].viewCount).ok
         IN  IntOf(vs[i].viewCount).exc

YtSorted(vs) == Vals(SortedDesc(ViewKeys(vs)))

Put(d, k, v) == [x \in (DOMAIN d) \cup {k} |-> IF x = k THEN v ELSE d[x]]

EmptyDict == [x \in {} |-> 0]

\* enumerate(..., start=0)
RECURSIVE RankDictFromZero(_, _, _)
RankDictFromZero(sorted, k, d) ==
    IF k > Len(sorted) THEN d
    ELSE RankDictFromZero(sorted, k + 1, Put(d, sorted[k].id, k - 1))

\* {v["id"]: rank for rank, v in enumerate(yt_sorted, start=1)}
RECURSIVE RankDict(_, _, _)
RankDict(sorted, k, d) ==
    IF k > Len(sorted) THEN d
    ELSE RankDict(sorted, k + 1, Put(d, sorted[k].id, k))

\* enumerate(yt_sorted, start=0): ranks 0..N-1
YtRankFromZero(sorted) == RankDictFromZero(sorted, 1, EmptyDict)

YtRank(sorted) == RankDict(sorted, 1, EmptyDict)

(***************************************************************************)
(* s3.get_youtube_view_counts_for_day: records without a parseable         *)
(* viewCount are skipped.                                                  *)
(***************************************************************************)
RECURSIVE get_youtube_view_counts_for_day(_)
get_youtube_view_counts_for_day(vs) ==
    IF Len(vs) = 0 THEN <<>>
    ELSE LET rest == get_youtube_view_counts_for_day(SubSeq(vs, 1, Len(vs) - 1))
             vc == IntOf(vs[Len(vs)].viewCount)
         IN  IF vc.ok THEN Append(rest, vc.val) ELSE rest

SelfKeys(s) == [i \in 1..Len(s) |-> [key |-> s[i], val |-> s[i]]]

\* s3.py:233  sorted(views, reverse=True)
ViewsSorted(views) == Vals(SortedDesc(SelfKeys(views)))

\* a5_analyze.py:44  np.sort(view_counts)[::-1]
NpSortReversed(views) == Vals(Reverse(StableSort(SelfKeys(views))))

\* s3.py:234  list(range(1, len(views_sorted) + 1))
RankRange(s) == [i \in 1..Len(s) |-> i]

(***************************************************************************)
(* ass2.choose_target_titles, lines 65-70.                                 *)
(***************************************************************************)
TOP_K_AUTOMATIC == 3

TitlePairs(vs) ==
    [i \in 1..Len(vs) |->
        [key |-> 0 - IntOf(vs[i].viewCount).val, val |-> Title(vs[i])]]

\* pairs.sort(key=lambda x: -x[1]); pairs[:TOP_K_AUTOMATIC]
TopTitles(vs) ==
    LET sorted == Vals(StableSort(TitlePairs(vs)))
        n == IF Len(sorted) < TOP_K_AUTOMATIC THEN Len(sorted) ELSE TOP_K_AUTOMATIC
    IN  SubSeq(sorted, 1, n)

(***************************************************************************)
(* a5_collect.fetch_video_details line 116 writes viewCount as             *)
(* int(stats.get("viewCount", 0)); a5_analyze.load_view_counts reads it.   *)
(***************************************************************************)
RECURSIVE load_view_counts(_)
load_view_counts(vs) ==
    IF Len(vs) = 0 THEN <<>>
    ELSE LET v == vs[Len(vs)].viewCount
         IN  Append(load_view_counts(SubSeq(vs, 1, Len(vs) - 1)),
                    IF v = Missing THEN 0 ELSE IntOf(v).val)

(***************************************************************************)
(* s3._spearman_correlation, lines 333-354, in exact arithmetic.  With     *)
(* n = len(xs), every difference x - mean_x is carried as the integer      *)
(* n*x - sum(xs), so num, den_x**2 and den_y**2 are carried times n*n.     *)
(* The value returned is num / sqrt(den_x2 * den_y2); the rounding of the  *)
(* floating-point operations is not modelled.                              *)
(***************************************************************************)
RECURSIVE Sum(_)
Sum(s) == IF Len(s) = 0 THEN 0 ELSE Sum(SubSeq(s, 1, Len(s) - 1)) + s[Len(s)]

\* n * (x - mean) for every x of s
Centred(s) == [i \in 1..Len(s) |-> Len(s) * s[i] - Sum(s)]

\* the differences taken without subtracting the mean
Uncentred(s) == [i \in 1..Len(s) |-> Len(s) * s[i]]

\* sum(a * b for a, b in zip(s, t))
Dot(s, t) ==
    LET n == IF Len(s) < Len(t) THEN Len(s) ELSE Len(t)
    IN  Sum([i \in 1..n |-> s[i] * t[i]])

NaN == [kind |-> "nan", num |-> 0, den_x2 |-> 0, den_y2 |-> 0]

\* corr before it is assigned
NoCorr == [kind |-> "unset", num |-> 0, den_x2 |-> 0, den_y2 |-> 0]

\* num / (den_x * den_y)
Quotient(num, den_x2, den_y2) ==
    IF den_x2 * den_y2 = 0
    THEN [kind |-> "ZeroDivisionError", num |-> num, den_x2 |-> den_x2, den_y2 |-> den_y2]
    ELSE [kind |-> "number", num |-> num, den_x2 |-> den_x2, den_y2 |-> den_y2]

\* the function without the test of den_y
SpearmanNoDenYTest(x, y) ==
    IF Len(x) # Len(y) \/ Len(x) = 0 THEN NaN
    ELSE LET num == Dot(Centred(x), Centred(y))
             den_x2 == Dot(Centred(x), Centred(x))
             den_y2 == Dot(Centred(y), Centred(y))
         IN  IF den_x2 = 0 THEN NaN ELSE Quotient(num, den_x2, den_y2)

\* the function with norms that are not mean-centred
SpearmanUncentredNorms(x, y) ==
    IF Len(x) # Len(y) \/ Len(x) = 0 THEN NaN
    ELSE LET num == Dot(Centred(x), Centred(y))
             den_x2 == Dot(Uncentred(x), Uncentred(x))
             den_y2 == Dot(Uncentred(y), Uncentred(y))
         IN  IF den_x2 = 0 \/ den_y2 = 0 THEN NaN ELSE Quotient(num, den_x2, den_y2)

_spearman_correlation(x, y) ==
    IF Len(x) # Len(y) \/ Len(x) = 0 THEN NaN
    ELSE LET num == Dot(Centred(x), Centred(y))
             den_x2 == Dot(Centred(x), Centred(x))
             den_y2 == Dot(Centred(y), Centred(y))
         IN  IF den_x2 = 0 \/ den_y2 = 0 THEN NaN ELSE Quotient(num, den_x2, den_y2)

(***************************************************************************)
(* SpecRank: the rank computations applied to every snapshot of up to      *)
(* MaxRecs video objects.                                                  *)
(***************************************************************************)
RankIdle ==
    /\ yt_sorted = <<>>
    /\ yt_rank = EmptyDict
    /\ views_sorted = <<>>
    /\ ranks = <<>>
    /\ titles = <<>>

CorrIdle ==
    /\ xs = <<>>
    /\ ys = <<>>
    /\ corr = NoCorr

LoadIdle ==
    /\ yt_days = <<>>
    /\ sp_days = <<>>
    /\ rows = <<>>

NoZips ==
    /\ yt_zip = <<>>
    /\ sp_zip = <<>>

CmpIdle ==
    /\ yt_videos = <<>>
    /\ sp_tracks = <<>>
    /\ mapping = EmptyDict
    /\ t_idx = 1
    /\ best_yt_id = None
    /\ selected_dates = <<>>
    /\ d_idx = 1
    /\ plots = <<>>
    /\ num_days = 0
    /\ indices = <<>>

\* the sources of the other runs exist
SrcIdle ==
    /\ exists = TRUE
    /\ opened = FALSE

NoResponse == [items |-> <<>>, nextPageToken |-> None]

ColIdle ==
    /\ api_key = None
    /\ client_built = FALSE
    /\ n_requests = 0
    /\ video_ids = <<>>
    /\ seen_ids = {}
    /\ page_token = None
    /\ response = NoResponse
    /\ batch_start = 0
    /\ fetched = <<>>
    /\ saved = FALSE

InitRank ==
    /\ pc = "start"
    /\ err = "none"
    /\ videos \in SeqsUpTo(VideoPool, MaxRecs)
    /\ RankIdle
    /\ CorrIdle
    /\ NoZips
    /\ LoadIdle
    /\ CmpIdle
    /\ SrcIdle
    /\ ColIdle

\* s3.py:399-405
RankTable ==
    /\ pc = "start"
    /\ IF FirstViewError(videos) # "none"
       THEN /\ pc' = "error"
            /\ err' = FirstViewError(videos)
            /\ UNCHANGED <<yt_sorted, yt_rank>>
       ELSE /\ pc' = "ranked"
            /\ yt_sorted' = YtSorted(videos)
            /\ yt_rank' = YtRank(YtSorted(videos))
            /\ err' = "none"
    /\ UNCHANGED <<videos, views_sorted, ranks, titles, corrVars, zipVars, colVars, srcVars, loadVars, cmpVars>>

\* s3.py:229-234
PlotRanks ==
    /\ pc = "start"
    /\ LET views == get_youtube_view_counts_for_day(videos)
       IN  IF Len(views) = 0
           THEN /\ pc' = "skipped"
                /\ UNCHANGED <<views_sorted, ranks>>
           ELSE /\ pc' = "plotted"
                /\ views_sorted' = ViewsSorted(views)
                /\ ranks' = RankRange(ViewsSorted(views))
    /\ UNCHANGED <<err, videos, yt_sorted, yt_rank, titles, corrVars, zipVars, colVars, srcVars, loadVars, cmpVars>>

\* a5_analyze.py:44-45 on the dataset a5_collect saved from these videos
A5Ranks ==
    /\ pc = "start"
    /\ \A i \in 1..Len(videos) :
          videos[i].viewCount = Missing \/ IntOf(videos[i].viewCount).ok
    /\ pc' = "a5_plotted"
    /\ views_sorted' = NpSortReversed(load_view_counts(videos))
    /\ ranks' = RankRange(NpSortReversed(load_view_counts(videos)))
    /\ UNCHANGED <<err, videos, yt_sorted, yt_rank, titles, corrVars, zipVars, colVars, srcVars, loadVars, cmpVars>>

\* ass2.py:65-70
ChooseTitles ==
    /\ pc = "start"
    /\ IF FirstViewError(videos) # "none"
       THEN /\ pc' = "error"
            /\ err' = FirstViewError(videos)
            /\ UNCHANGED titles
       ELSE /\ pc' = "titles"
            /\ titles' = TopTitles(videos)
            /\ err' = "none"
    /\ UNCHANGED <<videos, yt_sorted, yt_rank, views_sorted, ranks, corrVars, zipVars, colVars, srcVars, loadVars, cmpVars>>

NextRank == RankTable \/ PlotRanks \/ A5Ranks \/ ChooseTitles

SpecRank == InitRank /\ [][NextRank]_vars

(***************************************************************************)
(* Properties of the rank computations.                                    *)
(***************************************************************************)
Range(f) == {f[x] : x \in DOMAIN f}

ViewsOf(v) == IntOf(v.viewCount).val

NonIncreasing(s) == \A i, j \in 1..Len(s) : i < j => s[i] >= s[j]

\* the place of input record i in the stable descending order of the keys
StablePos(keys, i) ==
    1 + Cardinality({k \in 1..Len(keys) : keys[k] > keys[i]})
      + Cardinality({k \in 1..(i - 1) : keys[k] = keys[i]})

VideoViews == [i \in 1..Len(videos) |-> ViewsOf(videos[i])]

DistinctIds(vs) == \A i, j \in 1..Len(vs) : vs[i].id = vs[j].id => i = j

Parseable(vs) == \A i \in 1..Len(vs) : IntOf(vs[i].viewCount).ok

\* C1 as stated: the ranks are exactly {1..N}, N the number of input
\* records, and the metric does not increase as the rank increases
C1_AsStated ==
    /\ pc = "ranked" =>
          /\ Range(yt_rank) = 1..Len(videos)
          /\ NonIncreasing([i \in 1..Len(yt_sorted) |-> ViewsOf(yt_sorted[i])])
    /\ (pc = "plotted" /\ Parseable(videos)) =>
          /\ Range(ranks) = 1..Len(videos)
          /\ NonIncreasing(views_sorted)
    /\ pc = "a5_plotted" =>
          /\ Range(ranks) = 1..Len(videos)
          /\ NonIncreasing(views_sorted)

\* C1 amended: the sorted list holds every input record once, at positions
\* 1..N with non-increasing metric, and the rank lists of the plots are
\* exactly 1..N (N the number of records that carry a parseable metric);
\* the id -> rank table has one entry per distinct id, holding the position
\* of the id's last record in the sorted list, so its ranks are distinct
\* values of 1..N, the metric does not increase with them, and they are
\* exactly {1..N} if and only if no id occurs twice
C1_Ranks ==
    /\ pc = "ranked" =>
          /\ Len(yt_sorted) = Len(videos)
          /\ \A i \in 1..Len(videos) : yt_sorted[StablePos(VideoViews, i)] = videos[i]
          /\ NonIncreasing([i \in 1..Len(yt_sorted) |-> ViewsOf(yt_sorted[i])])
          /\ DOMAIN yt_rank = {videos[i].id : i \in 1..Len(videos)}
          /\ \A id \in DOMAIN yt_rank :
                /\ yt_rank[id] \in 1..Len(videos)
                /\ yt_sorted[yt_rank[id]].id = id
                /\ \A p \in 1..Len(yt_sorted) : yt_sorted[p].id = id => p <= yt_rank[id]
          /\ \A a, b \in DOMAIN yt_rank :
                yt_rank[a] < yt_rank[b] =>
                    ViewsOf(yt_sorted[yt_rank[a]]) >= ViewsOf(yt_sorted[yt_rank[b]])
          /\ (Range(yt_rank) = 1..Len(videos)) <=> DistinctIds(videos)
    /\ pc = "plotted" =>
          /\ ranks = [i \in 1..Len(get_youtube_view_counts_for_day(videos)) |-> i]
          /\ Len(views_sorted) = Len(ranks)
          /\ Len(ranks) = Cardinality({i \in 1..Len(videos) : IntOf(videos[i].viewCount).ok})
          /\ NonIncreasing(views_sorted)
    /\ pc = "a5_plotted" =>
          /\ ranks = [i \in 1..Len(videos) |-> i]
          /\ Len(views_sorted) = Len(videos)
          /\ NonIncreasing(views_sorted)

\* three records with three ids and different metrics have been ranked
C1_Witness ==
    /\ pc = "ranked"
    /\ Len(videos) >= 3
    /\ DistinctIds(videos)
    /\ \E i, j \in 1..Len(videos) : ViewsOf(videos[i]) # ViewsOf(videos[j])

InitCorr ==
    /\ pc = "corr_start"
    /\ err = "none"
    /\ videos = <<>>
    /\ RankIdle
    /\ xs \in SeqsUpTo(1..MaxRankVal, MaxLen)
    /\ ys \in SeqsUpTo(1..MaxRankVal, MaxLen)
    /\ corr = NoCorr
    /\ NoZips
    /\ LoadIdle
    /\ CmpIdle
    /\ SrcIdle
    /\ ColIdle

\* s3.py:428  corr = _spearman_correlation(xs, ys)
Correlate ==
    /\ pc = "corr_start"
    /\ LET r == _spearman_correlation(xs, ys)
       IN  IF r.kind = "ZeroDivisionError"
           THEN pc' = "error" /\ err' = "ZeroDivisionError" /\ corr' = NoCorr
           ELSE pc' = "corr_done" /\ err' = "none" /\ corr' = r
    /\ UNCHANGED <<rankVars, xs, ys, zipVars, colVars, srcVars, loadVars, cmpVars>>

NextCorr == Correlate

SpecCorr == InitCorr /\ [][NextCorr]_vars

AllEqual(s) == \A i, j \in 1..Len(s) : s[i] = s[j]

\* the value returned is 1.0: num = den_x * den_y
IsOne(r) == r.kind = "number" /\ r.num > 0 /\ r.num * r.num = r.den_x2 * r.den_y2

\* C3: the correlation raises nothing, and returns NaN exactly when the
\* sequences are empty, differ in length, or one of them has all values
\* equal (a single value included); otherwise it returns a number
C3_NaN ==
    /\ pc \in {"corr_start", "corr_done"}
    /\ pc = "corr_done" =>
          /\ err = "none"
          /\ corr.kind \in {"nan", "number"}
          /\ (corr.kind = "nan") <=>
                \/ Len(xs) = 0
                \/ Len(xs) # Len(ys)
                \/ AllEqual(xs)
                \/ AllEqual(ys)

\* NaN came back for two sequences of equal length, the first with
\* different values and the second with all values equal
C3_Witness ==
    /\ pc = "corr_done"
    /\ corr.kind = "nan"
    /\ Len(xs) = Len(ys)
    /\ Len(xs) >= 2
    /\ ~AllEqual(xs)
    /\ AllEqual(ys)

Dir == <<"y", "t", "/">>
DataJson == <<"_", "d", "a", "t", "a", ".", "j", "s", "o", "n">>
Json == <<".", "j", "s", "o", "n">>
At1800 == <<"_", "1", "8", "0", "0">>
At1328 == <<"_", "1", "3", "2", "8">>

Tok0101 == <<"2", "0", "1", "5", "0", "1", "0", "1">>
Tok0102 == <<"2", "0", "1", "5", "0", "1", "0", "2">>
Tok0103 == <<"2", "0", "1", "5", "0", "1", "0", "3">>
Tok1340 == <<"2", "0", "1", "5", "1", "3", "4", "0">>   \* no such day
TokShort == <<"2", "0", "1", "5", "0", "1", "0">>       \* seven digits
TokAlpha == <<"a", "b", "c">>                           \* no digits

\* e.g. yt/20150101_1800_data.json
MemberName(tok, time) == Dir \o tok \o time \o DataJson

Name0101 == MemberName(Tok0101, At1800)
Name0102 == MemberName(Tok0102, At1800)
Name0103 == MemberName(Tok0103, At1800)
Name0101Early == MemberName(Tok0101, At1328)
Name1340 == MemberName(Tok1340, At1800)
NameShort == MemberName(TokShort, <<>>)
NameAlpha == MemberName(TokAlpha, <<>>)
NameTxt == Dir \o <<"n", "o", "t", "e", "s", ".", "t", "x", "t">>

NamePool ==
    {Name0101, Name0102, Name0103, Name0101Early, Name1340, NameShort, NameAlpha, NameTxt}

\* the sequences of up to n different elements of S
DistinctSeqs(S, n) ==
    {s \in SeqsUpTo(S, n) : \A i, j \in 1..Len(s) : s[i] = s[j] => i = j}

\* '20151109' of 'yt/20151109_1800_data.json'
DateToken(name) == Split(Basename(name), "_")[1]

\* statistics.viewCount of a video in the document of a day
DayViews(name, id) ==
    LET tok == DateToken(name)
        last == IF Len(tok) = 0 THEN "0" ELSE tok[Len(tok)]
    IN  IF (last = "1" /\ id = "b1") \/ (last = "2" /\ id = "b2")
        THEN <<"1", "0">> ELSE <<"2">>

\* a video object with its statistics
DocVideo(id, vc, lc, dc) ==
    [id |-> id, viewCount |-> vc, likeCount |-> lc, dislikeCount |-> dc]

\* the YouTube document of a day that lists the videos ids
YtDoc(name, ids) ==
    [i \in 1..Len(ids) |-> DocVideo(ids[i], DayViews(name, ids[i]), <<"5">>, Missing)]

TrackIds == {"a1", "a2", "a3", "a4"}

TrackNameOf(id) ==
    CASE id = "a1" -> <<"H", "e", "l", "l", "o">>
      [] id = "a2" -> <<"H", "e", "l", "l", "o">>
      [] id = "a3" -> <<"H", "e", "l", "l", "o">>
      [] id = "a4" -> <<"S", "o", "r", "r", "y">>

\* the names of track.artists
ArtistNamesOf(id) ==
    CASE id = "a1" -> << <<"A", "d", "e", "l", "e">> >>
      [] id = "a2" -> << <<"A", "d", "e", "l", "e">>, <<"S", "o", "m", "e", "o", "n", "e">> >>
      [] id = "a3" -> << <<"N", "o", "b", "o", "d", "y">> >>
      [] id = "a4" -> << <<"J", "u", "s", "t", "i", "n", " ", "B", "i", "e", "b", "e", "r">> >>

\* item["track"] of a playlist item
TrackObject(id) == [id |-> id, name |-> TrackNameOf(id), artists |-> ArtistNamesOf(id)]

\* payload["tracks"]["items"] of the Spotify document that lists the tracks ids
SpDoc(ids) == [i \in 1..Len(ids) |-> TrackObject(ids[i])]

\* A document of another top-level shape is written as one marker record:
\* ObjectDoc is a JSON object that has no key "tracks", ListDoc a JSON list
\* where a playlist object is expected.
ObjectDoc == <<[shape |-> "object"]>>

ListDoc == <<[shape |-> "list"]>>

HasShape(data, shape) ==
    /\ Len(data) = 1
    /\ DOMAIN data[1] = {"shape"}
    /\ data[1].shape = shape

(***************************************************************************)
(* The loaders.  Each returns [exc, value]: the exception that ended it,   *)
(* or "none" and the list it produced.                                     *)
(***************************************************************************)
Names(zip) == [i \in 1..Len(zip) |-> zip[i].name]

DataOf(zip, name) == (CHOOSE i \in 1..Len(zip) : zip[i].name = name)

Read(zip, name) == zip[DataOf(zip, name)].data

IsJson(name) == EndsWith(name, Json)

IsJsonAnyCase(name) == EndsWith(Lower(name), Json)

\* the first element of s that satisfies Bad, as a one-element list
First(hits) == IF Len(hits) = 0 THEN <<>> ELSE <<hits[1]>>

Raised(exc) == [exc |-> exc, value |-> <<>>]

Returned(value) == [exc |-> "none", value |-> value]

\* int(stats.get(key, 0))
IntOrZero(s) == IF s = Missing THEN [ok |-> TRUE, exc |-> "none", val |-> 0] ELSE IntOf(s)

RECURSIVE Flatten(_)
Flatten(ss) == IF Len(ss) = 0 THEN <<>> ELSE ss[1] \o Flatten(Tail(ss))

(* s1.load_youtube_from_zip, lines 56-121 *)
S1Date(name) ==
    LET date_part == DateToken(name)
    IN  IF IsDigitStr(date_part) /\ Len(date_part) = 8
        THEN strptime(date_part)      \* NoDate stands for None
        ELSE NoDate

S1Row(date, item) ==
    [date |-> date, video_id |-> item.id, title |-> Title(item),
     likes |-> IntOrZero(item.likeCount).val,
     dislikes |-> IntOrZero(item.dislikeCount).val,
     diff |-> IntOrZero(item.likeCount).val - IntOrZero(item.dislikeCount).val]

S1BadItem(item) == ~IntOrZero(item.likeCount).ok \/ ~IntOrZero(item.dislikeCount).ok

\* s1.py:58  the members in the order of zf.namelist()
S1JsonFiles(zip) == SelectSeq(Names(zip), IsJsonAnyCase)

\* s1.py:68-105  what ends the loop at the member name, or "none"
S1FileError(zip, name) ==
    IF HasShape(Read(zip, name), "object") THEN "TypeError"
    ELSE IF Len(First(SelectSeq(Read(zip, name), S1BadItem))) > 0 THEN "ValueError"
    ELSE "none"

load_youtube_from_zip(zip) ==
    LET json_files == S1JsonFiles(zip)
        Fails(name) == S1FileError(zip, name) # "none"
        failed == First(SelectSeq(json_files, Fails))
    IN  IF Len(json_files) = 0 THEN Raised("FileNotFoundError")
        ELSE IF Len(failed) > 0 THEN Raised(S1FileError(zip, failed[1]))
        ELSE Returned(Flatten([i \in 1..Len(json_files) |->
                [k \in 1..Len(Read(zip, json_files[i])) |->
                    S1Row(S1Date(json_files[i]), Read(zip, json_files[i])[k])]]))

(* s3.iter_youtube_days, lines 90-102, consumed by list() *)
BadToken(name) == ~strptime(DateToken(name)).ok

iter_youtube_days(zip) ==
    LET json_files == SortedStrings(SelectSeq(Names(zip), IsJson))
    IN  IF Len(First(SelectSeq(json_files, BadToken))) > 0 THEN Raised("ValueError")
        ELSE Returned([i \in 1..Len(json_files) |->
                [date |-> strptime(DateToken(json_files[i])),
                 data |-> Read(zip, json_files[i])]])

(* s3._spotify_json_files, _pick_spotify_file_for_date, iter_spotify_days *)
_spotify_json_files(zip) == SortedStrings(SelectSeq(Names(zip), IsJson))

\* sorted(set(s)) of a sorted list
RECURSIVE Dedup(_)
Dedup(s) ==
    IF Len(s) <= 1 THEN s
    ELSE IF s[1] = s[2] THEN Dedup(Tail(s))
    ELSE <<s[1]>> \o Dedup(Tail(s))

_pick_spotify_file_for_date(files, date_str) ==
    LET InDate(f) == Contains(Basename(f), date_str)
        At18(f) == Contains(f, At1800 \o <<"_">>)
        candidates == SelectSeq(files, InDate)
        preferred == First(SelectSeq(candidates, At18))
    IN  IF Len(preferred) > 0 THEN preferred[1] ELSE SortedStrings(candidates)[1]

\* ", ".join(...)
RECURSIVE Join(_)
Join(ss) ==
    IF Len(ss) = 0 THEN <<>>
    ELSE IF Len(ss) = 1 THEN ss[1]
    ELSE ss[1] \o <<",", " ">> \o Join(Tail(ss))

\* s3.py:183-193
SpotifyTracks(items) ==
    [i \in 1..Len(items) |->
        [id |-> items[i].id, name |-> items[i].name,
         artists |-> Join(items[i].artists), position |-> i]]

\* s3.py:176-181  what ends the loop at the date date_str, or "none"
SpotifyDayError(zip, files, date_str) ==
    LET payload == Read(zip, _pick_spotify_file_for_date(files, date_str))
    IN  IF HasShape(payload, "list") THEN "TypeError"
        ELSE IF HasShape(payload, "object") THEN "KeyError"
        ELSE IF ~strptime(date_str).ok THEN "ValueError"
        ELSE "none"

iter_spotify_days(zip) ==
    LET files == _spotify_json_files(zip)
        dates == Dedup(SortedStrings([i \in 1..Len(files) |-> DateToken(files[i])]))
        Fails(date_str) == SpotifyDayError(zip, files, date_str) # "none"
        failed == First(SelectSeq(dates, Fails))
    IN  IF Len(failed) > 0 THEN Raised(SpotifyDayError(zip, files, failed[1]))
        ELSE Returned([i \in 1..Len(dates) |->
                [date |-> strptime(dates[i]),
                 data |-> SpotifyTracks(Read(zip, _pick_spotify_file_for_date(files, dates[i])))]])

(* ass2.parse_date_from_filename, choose_target_titles, load_view_time_series *)
parse_date_from_filename(name) == strptime(Split(Basename(name), "_")[1])

Member(x, s) == \E i \in 1..Len(s) : s[i] = x

load_view_time_series(zip) ==
    LET json_names == SelectSeq(Names(zip), IsJson)
        sorted == SortedStrings(json_names)
    IN  IF Len(json_names) = 0 THEN Raised("IndexError")
        ELSE IF FirstViewError(Read(zip, sorted[1])) # "none"
             THEN Raised(FirstViewError(Read(zip, sorted[1])))
        ELSE LET target_titles == TopTitles(Read(zip, sorted[1]))
                 Tracked(item) == Member(Title(item), target_titles)
                 FileError(name) ==
                     IF ~parse_date_from_filename(name).ok THEN "ValueError"
                     ELSE FirstViewError(SelectSeq(Read(zip, name), Tracked))
                 Fails(name) == FileError(name) # "none"
             IN  IF Len(First(SelectSeq(sorted, Fails))) > 0
                 THEN Raised(FileError(First(SelectSeq(sorted, Fails))[1]))
                 ELSE Returned(Flatten([i \in 1..Len(sorted) |->
                    LET day == SelectSeq(Read(zip, sorted[i]), Tracked)
                    IN  [k \in 1..Len(day) |->
                            [date |-> parse_date_from_filename(sorted[i]),
                             title |-> Title(day[k]),
                             views |-> IntOf(day[k].viewCount).val]]]))

(***************************************************************************)
(* SpecLoad: every loader applied to every archive of up to MaxMembers     *)
(* members of NamePool, stored in any order, two entities per document.    *)
(***************************************************************************)
TwoVideos(name) == YtDoc(name, <<"b1", "b2">>)

TwoTracks(name) == SpDoc(<<"a1", "a3">>)

InitLoad ==
    /\ pc = "load_start"
    /\ err = "none"
    /\ videos = <<>>
    /\ RankIdle
    /\ CorrIdle
    /\ \E names \in DistinctSeqs(NamePool, MaxMembers) :
          /\ yt_zip = [i \in 1..Len(names) |-> [name |-> names[i], data |-> TwoVideos(names[i])]]
          /\ sp_zip = [i \in 1..Len(names) |-> [name |-> names[i], data |-> TwoTracks(names[i])]]
    /\ LoadIdle
    /\ CmpIdle
    /\ SrcIdle
    /\ ColIdle

\* the run of a loader ends with its list or with its exception
Finish(result, done) ==
    IF result.exc = "none"
    THEN pc' = done /\ err' = "none"
    ELSE pc' = "error" /\ err' = result.exc

LoadYoutubeFromZip ==
    /\ pc = "load_start"
    /\ LET r == load_youtube_from_zip(yt_zip)
       IN  Finish(r, "s1_loaded") /\ rows' = r.value
    /\ UNCHANGED <<rankVars, corrVars, cmpVars, zipVars, colVars, srcVars, yt_days, sp_days>>

IterYoutubeDays ==
    /\ pc = "load_start"
    /\ LET r == iter_youtube_days(yt_zip)
       IN  Finish(r, "yt_loaded") /\ yt_days' = r.value
    /\ UNCHANGED <<rankVars, corrVars, cmpVars, zipVars, colVars, srcVars, sp_days, rows>>

IterSpotifyDays ==
    /\ pc = "load_start"
    /\ LET r == iter_spotify_days(sp_zip)
       IN  Finish(r, "sp_loaded") /\ sp_days' = r.value
    /\ UNCHANGED <<rankVars, corrVars, cmpVars, zipVars, colVars, srcVars, yt_days, rows>>

LoadViewTimeSeries ==
    /\ pc = "load_start"
    /\ LET r == load_view_time_series(yt_zip)
       IN  Finish(r, "ass2_loaded") /\ rows' = r.value
    /\ UNCHANGED <<rankVars, corrVars, cmpVars, zipVars, colVars, srcVars, yt_days, sp_days>>

NextLoad == LoadYoutubeFromZip \/ IterYoutubeDays \/ IterSpotifyDays \/ LoadViewTimeSeries

SpecLoad == InitLoad /\ [][NextLoad]_vars

\* the dated entries of s stand in ascending order of their dates
DatesAscending(s) ==
    \A i, j \in 1..Len(s) :
        (i < j /\ s[i].date.ok /\ s[j].date.ok) => DateKey(s[i].date) <= DateKey(s[j].date)

\* C9 as stated: whatever the order of the members in the archive, each of
\* the four loaders produces its snapshots (or rows) in ascending order of
\* the parsed dates
C9_DateOrder ==
    /\ pc = "s1_loaded" => DatesAscending(rows)
    /\ pc = "yt_loaded" => DatesAscending(yt_days)
    /\ pc = "sp_loaded" => DatesAscending(sp_days)
    /\ pc = "ass2_loaded" => DatesAscending(rows)

\* the loaders of s3.py and ass2.py, which sort the member names, do
\* produce ascending dates on these archives
SortingLoadersAscend ==
    /\ pc = "yt_loaded" => DatesAscending(yt_days)
    /\ pc = "sp_loaded" => DatesAscending(sp_days)
    /\ pc = "ass2_loaded" => DatesAscending(rows)

\* the JSON members whose date token is no calendar date
UnparsedMembers(zip) ==
    {i \in 1..Len(zip) : IsJson(zip[i].name) /\ ~strptime(DateToken(zip[i].name)).ok}

\* C10 as stated: a member whose date token is no 8-digit calendar date
\* aborts no loader; its records are loaded, without a date
C10_UnparsedDateTolerated ==
    UnparsedMembers(yt_zip) # {} =>
        /\ err # "ValueError"
        /\ pc = "s1_loaded" =>
              \A i \in UnparsedMembers(yt_zip) :
                  \E k \in 1..Len(rows) :
                      ~rows[k].date.ok /\ rows[k].video_id = yt_zip[i].data[1].id
        /\ pc = "yt_loaded" =>
              \A i \in UnparsedMembers(yt_zip) :
                  \E k \in 1..Len(yt_days) :
                      ~yt_days[k].date.ok /\ yt_days[k].data = yt_zip[i].data
        /\ pc = "sp_loaded" => Len(sp_days) > 0
        /\ pc = "ass2_loaded" => \E k \in 1..Len(rows) : ~rows[k].date.ok

\* load_youtube_from_zip does load the records of such a member, undated
S1ToleratesUnparsedDate ==
    (pc = "s1_loaded" /\ UnparsedMembers(yt_zip) # {}) =>
        \A i \in UnparsedMembers(yt_zip) :
            \E k \in 1..Len(rows) :
                ~rows[k].date.ok /\ rows[k].video_id = yt_zip[i].data[1].id

(***************************************************************************)
(* s3.evenly_spaced_indices                                                *)
(***************************************************************************)
\* round(a / b) for a >= 0 and b > 0: a half goes to the even neighbour
Round(a, b) ==
    LET q == a \div b
        r == a % b
    IN  IF 2 * r < b THEN q
        ELSE IF 2 * r > b THEN q + 1
        ELSE IF q % 2 = 0 THEN q ELSE q + 1

\* the indices with n in the place of n - 1: the last one is n
EvenlySpacedToN(n, k) ==
    IF k = 1 THEN <<0>>
    ELSE [i \in 1..k |-> Round((i - 1) * n, k - 1)]

evenly_spaced_indices(n, k) ==
    IF k = 1 THEN <<0>>
    ELSE [i \in 1..k |-> Round((i - 1) * (n - 1), k - 1)]

(***************************************************************************)
(* s3._build_spotify_youtube_mapping and compare_spotify_youtube_rankings: *)
(* the dictionaries by date and the dates both datasets have.              *)
(***************************************************************************)
\* the keys of {d: data for d, data in days}
DateKeys(days) == {DateKey(days[i].date) : i \in 1..Len(days)}

\* {d: data for d, data in days}[key]: the last day of a date stays
ByDate(days, key) ==
    LET i == CHOOSE j \in 1..Len(days) :
                /\ DateKey(days[j].date) = key
                /\ \A k \in (j + 1)..Len(days) : DateKey(days[k].date) # key
    IN  days[i].data

\* sorted(S) of a set of dates
RECURSIVE SortedDates(_)
SortedDates(S) ==
    IF S = {} THEN <<>>
    ELSE LET m == CHOOSE x \in S : \A y \in S : x <= y
         IN  <<m>> \o SortedDates(S \ {m})

\* the dates either dataset has
CommonDatesUnion(yt, sp) == SortedDates(DateKeys(yt) \cup DateKeys(sp))

\* sorted(set(yt_by_date.keys()) & set(sp_by_date.keys()))
common_dates(yt, sp) == SortedDates(DateKeys(yt) \cap DateKeys(sp))

(***************************************************************************)
(* The matcher of s3._build_spotify_youtube_mapping, lines 301-324.        *)
(***************************************************************************)
\* [a.strip().lower() for a in t["artists"].split(",")]
artist_tokens(t) ==
    LET parts == Split(t.artists, ",")
    IN  [i \in 1..Len(parts) |-> Lower(Strip(parts[i]))]

\* first pass: the track name and at least one artist in the title
FirstPass(t, vids) ==
    LET track_name == Lower(t.name)
        tokens == artist_tokens(t)
        Hit(v) == LET title == Lower(Title(v))
                  IN  /\ Contains(title, track_name)
                      /\ \E i \in 1..Len(tokens) : Contains(title, tokens[i])
        hits == First(SelectSeq(vids, Hit))
    IN  IF Len(hits) = 0 THEN None ELSE hits[1].id

\* second pass: just the track name
SecondPass(t, vids) ==
    LET track_name == Lower(t.name)
        Hit(v) == Contains(Lower(Title(v)), track_name)
        hits == First(SelectSeq(vids, Hit))
    IN  IF Len(hits) = 0 THEN None ELSE hits[1].id

\* a matcher without its first pass
BestMatchNameOnly(t, vids) == SecondPass(t, vids)

\* a matcher without its second pass
BestMatchStrictOnly(t, vids) == FirstPass(t, vids)

\* best_yt_id after both passes
BestMatch(t, vids) ==
    IF FirstPass(t, vids) # None THEN FirstPass(t, vids) ELSE SecondPass(t, vids)

\* mapping[spotify_id] = best_yt_id, whatever it is
StoreAlways(m, spotify_id, best) == Put(m, spotify_id, best)

\* if best_yt_id is not None: mapping[spotify_id] = best_yt_id
StoreMatch(m, spotify_id, best) ==
    IF best # None THEN Put(m, spotify_id, best) ELSE m

(***************************************************************************)
(* SpecCompare: compare_spotify_youtube_rankings(num_days) on a YouTube    *)
(* and a Spotify archive.  Every document of the YouTube archive lists the *)
(* same videos and every playlist the same tracks, each track once; the    *)
(* views of a video change with the day.                                   *)
(***************************************************************************)
\* the members of the two archives, in the order the archives store them
Layouts ==
    { [yt |-> <<Name0101>>, sp |-> <<Name0101>>],
      [yt |-> <<Name0102, Name0101>>, sp |-> <<Name0101, Name0102>>],
      [yt |-> <<Name0101, Name0101Early>>, sp |-> <<Name0101>>],
      [yt |-> <<Name0101, Name0102>>, sp |-> <<Name0103, Name0102>>],
      [yt |-> <<Name0103, Name0101, Name0102>>, sp |-> <<Name0102, Name0103, Name0101>>],
      [yt |-> <<Name0101>>, sp |-> <<Name0102>>],
      [yt |-> <<Name0101, Name0103>>, sp |-> <<Name0102>>],
      [yt |-> <<>>, sp |-> <<Name0101>>],
      [yt |-> <<Name0101>>, sp |-> <<>>],
      [yt |-> <<NameAlpha, Name0101>>, sp |-> <<Name0101>>],
      [yt |-> <<Name0101>>, sp |-> <<Name0101, NameAlpha>>] }

\* the values of num_days; main() passes 5
NumDaysPool == {1, 2, 5}

InitCompare ==
    /\ pc = "cmp_start"
    /\ err = "none"
    /\ videos = <<>>
    /\ RankIdle
    /\ CorrIdle
    /\ \E lay \in Layouts :
       \E vids \in SeqsUpTo(VideoIds, MaxVideos) :
       \E trks \in DistinctSeqs(TrackIds, MaxTracks) :
          /\ yt_zip = [i \in 1..Len(lay.yt) |->
                          [name |-> lay.yt[i], data |-> YtDoc(lay.yt[i], vids)]]
          /\ sp_zip = [i \in 1..Len(lay.sp) |->
                          [name |-> lay.sp[i], data |-> SpDoc(trks)]]
    /\ LoadIdle
    /\ CmpIdle
    /\ SrcIdle
    /\ ColIdle

\* s3.py:283-284  both loaders run to their end, or the first to raise ends the run
BuildLoad ==
    /\ pc = "cmp_start"
    /\ LET yt == iter_youtube_days(yt_zip)
           sp == iter_spotify_days(sp_zip)
       IN  IF yt.exc # "none"
           THEN pc' = "error" /\ err' = yt.exc /\ UNCHANGED <<yt_days, sp_days>>
           ELSE IF sp.exc # "none"
           THEN pc' = "error" /\ err' = sp.exc /\ yt_days' = yt.value /\ UNCHANGED sp_days
           ELSE pc' = "map_loaded" /\ err' = "none"
                /\ yt_days' = yt.value /\ sp_days' = sp.value
    /\ UNCHANGED <<rankVars, corrVars, zipVars, colVars, srcVars, rows, cmpVars>>

\* s3.py:286-299  the reference day, or the empty mapping
RefDate ==
    /\ pc = "map_loaded"
    /\ LET common == common_dates(yt_days, sp_days)
       IN  IF Len(common) = 0
           THEN /\ pc' = "map_returned"
                /\ mapping' = EmptyDict
                /\ UNCHANGED <<err, yt_videos, sp_tracks, t_idx>>
           ELSE IF common[1] \notin DateKeys(yt_days) \/ common[1] \notin DateKeys(sp_days)
           THEN /\ pc' = "error"
                /\ err' = "KeyError"
                /\ UNCHANGED <<yt_videos, sp_tracks, mapping, t_idx>>
           ELSE /\ pc' = "matching"
                /\ yt_videos' = ByDate(yt_days, common[1])
                /\ sp_tracks' = ByDate(sp_days, common[1])
                /\ mapping' = EmptyDict
                /\ t_idx' = 1
                /\ UNCHANGED err
    /\ UNCHANGED <<rankVars, corrVars, zipVars, colVars, srcVars, loadVars, best_yt_id, dayVars>>

\* s3.py:301-324  one turn of the loop over sp_tracks
MatchTrack ==
    /\ pc = "matching"
    /\ t_idx <= Len(sp_tracks)
    /\ LET t == sp_tracks[t_idx]
           best == BestMatch(t, yt_videos)
       IN  /\ best_yt_id' = best
           /\ mapping' = StoreMatch(mapping, t.id, best)
    /\ t_idx' = t_idx + 1
    /\ UNCHANGED <<pc, err, rankVars, corrVars, zipVars, colVars, srcVars, loadVars,
                   yt_videos, sp_tracks, dayVars>>

\* s3.py:326-330  return mapping
MatchDone ==
    /\ pc = "matching"
    /\ t_idx > Len(sp_tracks)
    /\ pc' = "map_returned"
    /\ UNCHANGED <<err, rankVars, corrVars, zipVars, colVars, srcVars, loadVars, cmpVars>>

Min(a, b) == IF a <= b THEN a ELSE b

\* s3.py:389-392  num_days of the common dates, evenly spaced
SelectedDates(common, asked) ==
    LET picked == evenly_spaced_indices(Len(common), Min(asked, Len(common)))
    IN  [i \in 1..Len(picked) |-> common[picked[i] + 1]]

\* s3.py:376-392  the test of the mapping, the second load, the days selected
CheckMapping ==
    /\ pc = "map_returned"
    /\ IF DOMAIN mapping = {}
       THEN /\ pc' = "cmp_returned"
            /\ UNCHANGED <<err, yt_days, sp_days, selected_dates, d_idx, num_days, indices>>
       ELSE /\ yt_days' = iter_youtube_days(yt_zip).value
            /\ sp_days' = iter_spotify_days(sp_zip).value
            /\ IF iter_youtube_days(yt_zip).exc # "none"
               THEN /\ pc' = "error"
                    /\ err' = iter_youtube_days(yt_zip).exc
                    /\ UNCHANGED <<selected_dates, d_idx, num_days, indices>>
               ELSE IF iter_spotify_days(sp_zip).exc # "none"
               THEN /\ pc' = "error"
                    /\ err' = iter_spotify_days(sp_zip).exc
                    /\ UNCHANGED <<selected_dates, d_idx, num_days, indices>>
               ELSE IF Len(common_dates(yt_days', sp_days')) = 0
               THEN /\ pc' = "cmp_returned"
                    /\ UNCHANGED <<err, selected_dates, d_idx, num_days, indices>>
               ELSE /\ pc' = "days"
                    /\ \E asked \in NumDaysPool :
                          /\ num_days' = Min(asked, Len(common_dates(yt_days', sp_days')))
                          /\ selected_dates' =
                                 SelectedDates(common_dates(yt_days', sp_days'), asked)
                    /\ indices' = evenly_spaced_indices(
                                      Len(common_dates(yt_days', sp_days')), num_days')
                    /\ d_idx' = 1
                    /\ UNCHANGED err
    /\ UNCHANGED <<rankVars, corrVars, zipVars, colVars, srcVars, rows, mapVars, plots>>

\* the tracks of a day that have a video in the rank table
Matched(tracks, m, rank) ==
    LET Has(t) == /\ t.id \in DOMAIN m
                  /\ m[t.id] # None
                  /\ m[t.id] \in DOMAIN rank
    IN  SelectSeq(tracks, Has)

\* s3.py:394-438  one turn of the loop over selected_dates
RankDay ==
    /\ pc = "days"
    /\ d_idx <= Len(selected_dates)
    /\ LET date == selected_dates[d_idx]
           vids == ByDate(yt_days, date)
           tracks == ByDate(sp_days, date)
           rank == YtRank(YtSorted(vids))
           hit == Matched(tracks, mapping, rank)
           sp_ranks == [i \in 1..Len(hit) |-> hit[i].position]
           yt_ranks == [i \in 1..Len(hit) |-> rank[mapping[hit[i].id]]]
       IN  /\ videos' = vids
           /\ IF FirstViewError(vids) # "none"
              THEN /\ pc' = "error"
                   /\ err' = FirstViewError(vids)
                   /\ UNCHANGED <<yt_sorted, yt_rank, corrVars, d_idx, plots>>
              ELSE /\ yt_sorted' = YtSorted(vids)
                   /\ yt_rank' = rank
                   /\ xs' = sp_ranks
                   /\ ys' = yt_ranks
                   /\ d_idx' = d_idx + 1
                   /\ UNCHANGED <<pc, err>>
                   /\ IF Len(sp_ranks) = 0
                      THEN UNCHANGED <<corr, plots>>
                      ELSE /\ corr' = _spearman_correlation(sp_ranks, yt_ranks)
                           /\ plots' = Append(plots,
                                  [date |-> date,
                                   corr |-> _spearman_correlation(sp_ranks, yt_ranks)])
    /\ UNCHANGED <<views_sorted, ranks, titles, zipVars, colVars, srcVars, loadVars, mapVars, selected_dates,
                   num_days, indices>>

\* the loop over selected_dates is through
CompareDone ==
    /\ pc = "days"
    /\ d_idx > Len(selected_dates)
    /\ pc' = "cmp_done"
    /\ UNCHANGED <<err, rankVars, corrVars, zipVars, colVars, srcVars, loadVars, cmpVars>>

NextCompare ==
    BuildLoad \/ RefDate \/ MatchTrack \/ MatchDone \/ CheckMapping \/ RankDay \/ CompareDone

SpecCompare == InitCompare /\ [][NextCompare]_vars

(***************************************************************************)
(* Properties of the matcher.  They speak of the tracks the loop is        *)
(* through with, sp_tracks[1 .. t_idx - 1], and of the videos yt_videos of *)
(* the reference day.                                                      *)
(***************************************************************************)
Processed == 1..(t_idx - 1)

VideoIdsOfRef == {yt_videos[i].id : i \in 1..Len(yt_videos)}

\* the videos whose lowercased title contains the lowercased track name
NameIdx(t) ==
    {i \in 1..Len(yt_videos) : Contains(Lower(Title(yt_videos[i])), Lower(t.name))}

\* the pieces of the artists field between its commas, lowercased
SplitTokens(t) ==
    {Lower(Split(t.artists, ",")[i]) : i \in 1..Len(Split(t.artists, ","))}

\* the same pieces, the blanks around each removed first
StrippedTokens(t) ==
    {Lower(Strip(Split(t.artists, ",")[i])) : i \in 1..Len(Split(t.artists, ","))}

\* the videos of NameIdx whose lowercased title contains one of the tokens
StrictIdx(t, tokens) ==
    {i \in NameIdx(t) : \E a \in tokens : Contains(Lower(Title(yt_videos[i])), a)}

Lowest(S) == CHOOSE i \in S : \A j \in S : i <= j

MappedTo(t, i) == t.id \in DOMAIN mapping /\ mapping[t.id] = yt_videos[i].id

\* C5 as stated: a track with a video whose lowercased title contains the
\* lowercased track name and one of the lowercased pieces of the comma-split
\* artists field is mapped to the first such video
C5_AsStated ==
    \A k \in Processed :
        StrictIdx(sp_tracks[k], SplitTokens(sp_tracks[k])) # {} =>
            MappedTo(sp_tracks[k], Lowest(StrictIdx(sp_tracks[k], SplitTokens(sp_tracks[k]))))

\* C5: a track with a video whose lowercased title contains the lowercased
\* track name and one of the artist tokens (the pieces of the comma-split
\* artists field, each stripped of the blanks around it and lowercased) is
\* mapped to the first such video in the order of the videos, also when an
\* earlier video contains the track name alone
C5_StrictFirst ==
    \A k \in Processed :
        StrictIdx(sp_tracks[k], StrippedTokens(sp_tracks[k])) # {} =>
            MappedTo(sp_tracks[k], Lowest(StrictIdx(sp_tracks[k], StrippedTokens(sp_tracks[k]))))

\* 'Hello' by Adele against [b2 'Someone - Hello There', b1 'Adele - Hello
\* (Official Video)'] is mapped to b1, the second video
C5_Witness ==
    /\ pc = "map_returned"
    /\ Len(yt_videos) = 2
    /\ yt_videos[1].id = "b2"
    /\ yt_videos[2].id = "b1"
    /\ \E k \in Processed : sp_tracks[k].id = "a1"
    /\ "a1" \in DOMAIN mapping
    /\ mapping["a1"] = "b1"

\* C6: a track no video matches strictly is mapped to the first video whose
\* lowercased title contains the lowercased track name, and a track some
\* video matches strictly is mapped to a video that matches it strictly
C6_RelaxedOnlyWithoutStrict ==
    \A k \in Processed :
        LET t == sp_tracks[k]
            strict == StrictIdx(t, StrippedTokens(t))
        IN  /\ (strict = {} /\ NameIdx(t) # {}) => MappedTo(t, Lowest(NameIdx(t)))
            /\ strict # {} => \E i \in strict : MappedTo(t, i)

\* 'Hello' by Nobody has no strict match and is mapped to the first of two
\* videos with 'hello' in the title, which is not the first video
C6_Witness ==
    /\ pc = "map_returned"
    /\ \E k \in Processed :
          /\ sp_tracks[k].id = "a3"
          /\ StrictIdx(sp_tracks[k], StrippedTokens(sp_tracks[k])) = {}
          /\ NameIdx(sp_tracks[k]) # {}
          /\ "a3" \in DOMAIN mapping
          /\ mapping["a3"] = yt_videos[Lowest(NameIdx(sp_tracks[k]))].id
    /\ \E k \in Processed :
          /\ StrictIdx(sp_tracks[k], StrippedTokens(sp_tracks[k])) # {}
          /\ Lowest(StrictIdx(sp_tracks[k], StrippedTokens(sp_tracks[k])))
                > Lowest(NameIdx(sp_tracks[k]))

\* C7: the keys of the mapping are the ids of the tracks whose lowercased
\* name some lowercased video title of the reference day contains; every
\* value is the id of a video of the reference day, never None
C7_PartialMapping ==
    /\ DOMAIN mapping =
          {sp_tracks[k].id : k \in {j \in Processed : NameIdx(sp_tracks[j]) # {}}}
    /\ \A id \in DOMAIN mapping : mapping[id] \in VideoIdsOfRef /\ mapping[id] # None

\* the mapping returned has one of two tracks, the other matched no video
C7_Witness ==
    /\ pc = "map_returned"
    /\ Len(sp_tracks) = 2
    /\ Len(yt_videos) > 0
    /\ \E k \in Processed :
          NameIdx(sp_tracks[k]) = {} /\ sp_tracks[k].id \notin DOMAIN mapping
    /\ \E k \in Processed :
          NameIdx(sp_tracks[k]) # {} /\ sp_tracks[k].id \in DOMAIN mapping

(***************************************************************************)
(* No date in common.                                                      *)
(***************************************************************************)
NoDateInCommon ==
    \A i \in 1..Len(yt_days) : \A j \in 1..Len(sp_days) :
        DateKey(yt_days[i].date) # DateKey(sp_days[j].date)

\* C8: when the two datasets loaded have no date in common, the matcher
\* returns the empty mapping and raises nothing, and the comparison then
\* returns with no rank table, no correlation and no plot made
C8_NoCommonDate ==
    [][ /\ (pc = "map_loaded" /\ NoDateInCommon) =>
              (pc' = "map_returned" /\ mapping' = EmptyDict /\ err' = "none")
        /\ (pc = "map_returned" /\ NoDateInCommon) =>
              /\ pc' = "cmp_returned"
              /\ err' = "none"
              /\ yt_rank' = EmptyDict
              /\ yt_sorted' = <<>>
              /\ corr' = NoCorr
              /\ plots' = <<>> ]_vars

\* both datasets have days, none in common, and the comparison has returned
C8_Witness ==
    /\ pc = "cmp_returned"
    /\ Len(yt_days) > 0
    /\ Len(sp_days) > 0
    /\ NoDateInCommon
    /\ mapping = EmptyDict
    /\ err = "none"
    /\ plots = <<>>

(***************************************************************************)
(* SpecSource: a loader handed a path that may not exist.  pc tells which  *)
(* loader the run calls: s1.load_youtube_from_zip, a5_analyze's            *)
(* load_view_counts, ass2.main or s3.iter_youtube_days.  yt_zip is what    *)
(* the archive holds, videos the items of the dataset file.                *)
(***************************************************************************)
SourceCalls == {"s1_call", "a5_call", "ass2_call", "yt_call"}

SourceNamePool == {Name0101, Name0102, NameTxt}

\* the items a5_collect saved: their viewCount is a number or absent
SavedPool == {v \in VideoPool : v.viewCount = Missing \/ IntOf(v.viewCount).ok}

InitSource ==
    /\ pc \in SourceCalls
    /\ err = "none"
    /\ exists \in BOOLEAN
    /\ opened = FALSE
    /\ videos \in SeqsUpTo(SavedPool, 1)
    /\ RankIdle
    /\ CorrIdle
    /\ \E names \in DistinctSeqs(SourceNamePool, MaxMembers) :
          yt_zip = [i \in 1..Len(names) |-> [name |-> names[i], data |-> TwoVideos(names[i])]]
    /\ sp_zip = <<>>
    /\ LoadIdle
    /\ CmpIdle
    /\ ColIdle

\* the loader goes on though the path does not exist
NoPathCheck(ex, result) == result

\* if not os.path.exists(path): raise FileNotFoundError(...)
PathCheck(ex, result) == IF ex THEN result ELSE Raised("FileNotFoundError")

\* zipfile.ZipFile(zip_path, "r") raises FileNotFoundError for a missing file
ZipFileOpen(ex, result) == IF ex THEN result ELSE Raised("FileNotFoundError")

\* s1.py:50-121
S1FromPath ==
    /\ pc = "s1_call"
    /\ LET r == PathCheck(exists, load_youtube_from_zip(yt_zip))
       IN  Finish(r, "s1_loaded") /\ rows' = r.value
    /\ opened' = exists
    /\ UNCHANGED <<rankVars, corrVars, cmpVars, zipVars, colVars, exists, yt_days, sp_days>>

\* a5_analyze.py:23-35
A5FromPath ==
    /\ pc = "a5_call"
    /\ LET r == PathCheck(exists, Returned(load_view_counts(videos)))
       IN  Finish(r, "a5_loaded") /\ rows' = r.value
    /\ opened' = exists
    /\ UNCHANGED <<rankVars, corrVars, cmpVars, zipVars, colVars, exists, yt_days, sp_days>>

\* ass2.py:143-150
Ass2Main ==
    /\ pc = "ass2_call"
    /\ LET r == PathCheck(exists, load_view_time_series(yt_zip))
       IN  Finish(r, "ass2_loaded") /\ rows' = r.value
    /\ opened' = exists
    /\ UNCHANGED <<rankVars, corrVars, cmpVars, zipVars, colVars, exists, yt_days, sp_days>>

\* s3.py:90-102
YtDaysFromPath ==
    /\ pc = "yt_call"
    /\ LET r == ZipFileOpen(exists, iter_youtube_days(yt_zip))
       IN  Finish(r, "yt_loaded") /\ yt_days' = r.value
    /\ opened' = exists
    /\ UNCHANGED <<rankVars, corrVars, cmpVars, zipVars, colVars, exists, sp_days, rows>>

NextSource == S1FromPath \/ A5FromPath \/ Ass2Main \/ YtDaysFromPath

SpecSource == InitSource /\ [][NextSource]_vars

\* C11: a loader called on a path that does not exist ends with
\* FileNotFoundError, has opened nothing and returns no records, and
\* load_youtube_from_zip ends the same way on an archive with no JSON member
C11_MissingSource ==
    [][ /\ (pc \in SourceCalls /\ ~exists) =>
              /\ pc' = "error"
              /\ err' = "FileNotFoundError"
              /\ opened' = FALSE
              /\ rows' = <<>>
              /\ yt_days' = <<>>
        /\ (pc = "s1_call" /\ exists /\ S1JsonFiles(yt_zip) = <<>>) =>
              /\ pc' = "error"
              /\ err' = "FileNotFoundError"
              /\ rows' = <<>> ]_vars

\* a run on a missing path has ended with FileNotFoundError, nothing opened
C11_Witness ==
    /\ ~exists
    /\ pc = "error"
    /\ err = "FileNotFoundError"
    /\ ~opened
    /\ rows = <<>>

(***************************************************************************)
(* SpecShape: load_youtube_from_zip, iter_youtube_days and                 *)
(* iter_spotify_days on archives of dated members, where a document may    *)
(* have another top-level shape than the loader expects.                   *)
(***************************************************************************)
ShapeNamePool == {Name0101, Name0102, Name0103}

YtDocs(name) == {TwoVideos(name), ObjectDoc}

SpDocs(name) == {TwoTracks(name), ObjectDoc, ListDoc}

InitShape ==
    /\ pc = "load_start"
    /\ err = "none"
    /\ videos = <<>>
    /\ RankIdle
    /\ CorrIdle
    /\ \E names \in DistinctSeqs(ShapeNamePool, MaxMembers) :
          /\ yt_zip \in {z \in [1..Len(names) -> [name : ShapeNamePool, data : UNION {YtDocs(n) : n \in ShapeNamePool}]] :
                            \A i \in 1..Len(names) :
                                z[i].name = names[i] /\ z[i].data \in YtDocs(names[i])}
          /\ sp_zip \in {z \in [1..Len(names) -> [name : ShapeNamePool, data : UNION {SpDocs(n) : n \in ShapeNamePool}]] :
                            \A i \in 1..Len(names) :
                                z[i].name = names[i] /\ z[i].data \in SpDocs(names[i])}
    /\ LoadIdle
    /\ CmpIdle
    /\ SrcIdle
    /\ ColIdle

NextShape == LoadYoutubeFromZip \/ IterYoutubeDays \/ IterSpotifyDays

SpecShape == InitShape /\ [][NextShape]_vars

\* the members of a YouTube archive whose document is no list
YtMalformed(zip) == {i \in 1..Len(zip) : HasShape(zip[i].data, "object")}

\* the members of a Spotify archive whose document is no object with tracks
SpMalformed(zip) ==
    {i \in 1..Len(zip) : HasShape(zip[i].data, "object") \/ HasShape(zip[i].data, "list")}

\* C12 as stated: no loader returns from an archive with a document of
\* another top-level shape, a run that ends with an exception returns no
\* records, and no such document is among the days handed on
C12_MalformedFatal ==
    /\ pc = "s1_loaded" => YtMalformed(yt_zip) = {}
    /\ pc = "yt_loaded" =>
          /\ YtMalformed(yt_zip) = {}
          /\ \A k \in 1..Len(yt_days) : ~HasShape(yt_days[k].data, "object")
    /\ pc = "sp_loaded" => SpMalformed(sp_zip) = {}
    /\ pc = "error" => (rows = <<>> /\ yt_days = <<>> /\ sp_days = <<>>)

\* load_youtube_from_zip and iter_spotify_days do end the run on such a
\* document, with no records returned
S1AndSpotifyRejectMalformed ==
    /\ pc = "s1_loaded" => YtMalformed(yt_zip) = {}
    /\ pc = "sp_loaded" => SpMalformed(sp_zip) = {}
    /\ pc = "error" => (rows = <<>> /\ yt_days = <<>> /\ sp_days = <<>>)

(***************************************************************************)
(* a5_collect.fetch_video_details, lines 108-119, on the items of the      *)
(* responses: the record kept of every item.                               *)
(***************************************************************************)
\* int(stats.get(key, 0)) if key in stats else None
IntOrNone(s) == IF s = Missing THEN [ok |-> TRUE, exc |-> "none", val |-> None] ELSE IntOf(s)

FetchItemFails(item) ==
    \/ ~IntOrZero(item.viewCount).ok
    \/ ~IntOrNone(item.likeCount).ok
    \/ ~IntOrNone(item.commentCount).ok

FetchedVideo(item) ==
    [id |-> item.id, title |-> Title(item),
     viewCount |-> IntOrZero(item.viewCount).val,
     likeCount |-> IntOrNone(item.likeCount).val,
     commentCount |-> IntOrNone(item.commentCount).val]

fetch_video_details(items) ==
    IF Len(First(SelectSeq(items, FetchItemFails))) > 0 THEN Raised("ValueError")
    ELSE Returned([i \in 1..Len(items) |-> FetchedVideo(items[i])])

(***************************************************************************)
(* SpecMetric: the four places that read a numeric field of a record, on   *)
(* records whose field is a number, no number, or missing.  pc tells which *)
(* is called: get_youtube_view_counts_for_day, the rank table of           *)
(* compare_spotify_youtube_rankings, load_youtube_from_zip or              *)
(* fetch_video_details.                                                    *)
(***************************************************************************)
MetricCalls == {"views_call", "rank_call", "s1_call", "fetch_call"}

MetricValues == {<<"2">>, <<"x">>, Missing}

\* the records each place is handed
MetricItems(call) ==
    IF call = "s1_call"
    THEN {DocVideo("b1", <<"2">>, lc, dc) : lc \in MetricValues, dc \in MetricValues}
    ELSE IF call = "fetch_call"
    THEN {[id |-> "b1", viewCount |-> vc, likeCount |-> lc, commentCount |-> cc] :
             vc \in MetricValues, lc \in MetricValues, cc \in MetricValues}
    ELSE {Video("b1", vc) : vc \in MetricValues}

InitMetric ==
    /\ pc \in MetricCalls
    /\ err = "none"
    /\ videos \in SeqsUpTo(MetricItems(pc), MaxItems)
    /\ RankIdle
    /\ CorrIdle
    /\ yt_zip = <<[name |-> Name0101, data |-> videos]>>
    /\ sp_zip = <<>>
    /\ LoadIdle
    /\ CmpIdle
    /\ SrcIdle
    /\ ColIdle

\* s3.py:105-117
ViewsForDay ==
    /\ pc = "views_call"
    /\ pc' = "views_done"
    /\ rows' = get_youtube_view_counts_for_day(videos)
    /\ UNCHANGED <<err, rankVars, corrVars, cmpVars, zipVars, colVars, srcVars, yt_days, sp_days>>

\* s3.py:399-405
RankTableOfDay ==
    /\ pc = "rank_call"
    /\ IF FirstViewError(videos) # "none"
       THEN /\ pc' = "error"
            /\ err' = FirstViewError(videos)
            /\ UNCHANGED <<yt_sorted, yt_rank>>
       ELSE /\ pc' = "ranked"
            /\ yt_sorted' = YtSorted(videos)
            /\ yt_rank' = YtRank(YtSorted(videos))
            /\ err' = "none"
    /\ UNCHANGED <<videos, views_sorted, ranks, titles, corrVars, zipVars, colVars, srcVars, loadVars, cmpVars>>

\* a5_collect.py:89-122
FetchDetails ==
    /\ pc = "fetch_call"
    /\ LET r == fetch_video_details(videos)
       IN  Finish(r, "fetched") /\ rows' = r.value
    /\ UNCHANGED <<rankVars, corrVars, cmpVars, zipVars, colVars, srcVars, yt_days, sp_days>>

NextMetric == ViewsForDay \/ RankTableOfDay \/ S1FromPath \/ FetchDetails

SpecMetric == InitMetric /\ [][NextMetric]_vars

\* the records of videos whose field holds a number
WithNumber(field) ==
    SelectSeq([i \in 1..Len(videos) |-> videos[i][field]], IsDigitStr)

\* C13 as stated: none of the four places ends with an exception, whatever
\* the numeric fields of the records hold; get_youtube_view_counts_for_day
\* keeps the views that are numbers, and every other place keeps one record
\* for every record it is handed
C13_MetricTolerated ==
    [][ /\ pc \in MetricCalls => pc' # "error"
        /\ pc = "views_call" => Len(rows') = Len(WithNumber("viewCount"))
        /\ pc = "rank_call" => Len(yt_sorted') = Len(videos)
        /\ pc \in {"s1_call", "fetch_call"} => Len(rows') = Len(videos) ]_vars

\* get_youtube_view_counts_for_day drops what is no number and never raises;
\* load_youtube_from_zip and fetch_video_details fill a missing field
ViewsDroppedMissingFilled ==
    /\ pc = "views_done" => (err = "none" /\ Len(rows) = Len(WithNumber("viewCount")))
    /\ pc = "s1_loaded" =>
          \A i \in 1..Len(rows) :
              /\ videos[i].likeCount = Missing => rows[i].likes = 0
              /\ videos[i].dislikeCount = Missing => rows[i].dislikes = 0
    /\ pc = "fetched" =>
          \A i \in 1..Len(rows) :
              /\ videos[i].viewCount = Missing => rows[i].viewCount = 0
              /\ videos[i].likeCount = Missing => rows[i].likeCount = None

(***************************************************************************)
(* SpecCollect: a5_collect.main and the script youtube_test.py against the *)
(* YouTube API.  The API answers a request with any page it likes, or the  *)
(* request raises.  The target of 200 videos and the page size of 50 are   *)
(* scaled down.                                                            *)
(***************************************************************************)
TARGET_VIDEO_COUNT == 2    \* a5_collect.py:29 has 200

MaxResults == 2            \* maxResults=50 in a5_collect.py:67 and :102

\* os.getenv("YOUTUBE_API_KEY"): unset, empty, or a key
ApiKeys == {None, "", "key"}

\* response.get("nextPageToken")
PageTokens == {None, "t"}

\* the ids of the videos the API knows
ApiIds == {"b1", "b2", "b3", "b4", "b5"}

\* the pages a search request may be answered with
SearchPages == [items : SeqsUpTo(ApiIds, MaxResults), nextPageToken : PageTokens]

InitCollect ==
    /\ pc \in {"a5_main", "test_script"}
    /\ err = "none"
    /\ videos = <<>>
    /\ RankIdle
    /\ CorrIdle
    /\ NoZips
    /\ LoadIdle
    /\ CmpIdle
    /\ SrcIdle
    /\ api_key \in ApiKeys
    /\ client_built = FALSE
    /\ n_requests = 0
    /\ video_ids = <<>>
    /\ seen_ids = {}
    /\ page_token = None
    /\ response = NoResponse
    /\ batch_start = 0
    /\ fetched = <<>>
    /\ saved = FALSE

\* request.execute() has been called once more
Execute == n_requests' = Min(n_requests + 1, MaxRequests)

\* request.execute() raises and the run goes on to its next step
RequestFailsCaught ==
    /\ Execute
    /\ err' = "HttpError"
    /\ UNCHANGED pc

\* request.execute() raises; nothing catches it
RequestFails ==
    /\ Execute
    /\ pc' = "error"
    /\ err' = "HttpError"

\* a5_collect.py:43-47  if not api_key: raise RuntimeError
get_youtube_client ==
    /\ pc = "a5_main"
    /\ IF api_key = None \/ api_key = ""
       THEN pc' = "error" /\ err' = "RuntimeError" /\ UNCHANGED client_built
       ELSE pc' = "search" /\ client_built' = TRUE /\ UNCHANGED err
    /\ UNCHANGED <<rankVars, corrVars, zipVars, srcVars, loadVars, cmpVars,
                   api_key, n_requests, searchVars, batch_start, fetched, saved>>

\* every id of a page is appended, seen before or not
AddAll(ids, items) == ids \o items

\* a5_collect.py:72-76  the ids of a page not seen before, in their order
RECURSIVE AddNew(_, _)
AddNew(ids, items) ==
    IF Len(items) = 0 THEN ids
    ELSE IF Member(items[1], ids) THEN AddNew(ids, Tail(items))
    ELSE AddNew(Append(ids, items[1]), Tail(items))

\* the loop goes on until the target is passed
WhileAtMostTarget(ids) == Len(ids) <= TARGET_VIDEO_COUNT

\* a5_collect.py:60  while len(video_ids) < TARGET_VIDEO_COUNT
WhileBelowTarget(ids) == Len(ids) < TARGET_VIDEO_COUNT

\* a5_collect.py:60-83  one turn of the while loop
SearchPage ==
    /\ pc = "search"
    /\ WhileBelowTarget(video_ids)
    /\ \/ RequestFails /\ UNCHANGED searchVars
       \/ \E page \in SearchPages :
             /\ Execute
             /\ response' = page
             /\ video_ids' = AddNew(video_ids, page.items)
             /\ seen_ids' = seen_ids \cup {page.items[i] : i \in 1..Len(page.items)}
             /\ page_token' = page.nextPageToken
             /\ pc' = IF page.nextPageToken = None THEN "fetch" ELSE "search"
             /\ UNCHANGED err
    /\ UNCHANGED <<rankVars, corrVars, zipVars, srcVars, loadVars, cmpVars,
                   api_key, client_built, batch_start, fetched, saved>>

\* a5_collect.py:60, 85-86  the loop condition fails: return video_ids
SearchReturn ==
    /\ pc = "search"
    /\ ~WhileBelowTarget(video_ids)
    /\ pc' = "fetch"
    /\ UNCHANGED <<err, rankVars, corrVars, zipVars, colVars, srcVars, loadVars, cmpVars>>

\* an item of the response of videos().list
ApiItem(id) ==
    [id |-> id, viewCount |-> <<"1", "0">>, likeCount |-> Missing, commentCount |-> <<"2">>]

\* the elements of s at the places in keep, in their order
Pick(s, keep) ==
    LET Kept(i) == i \in keep
        places == SelectSeq([i \in 1..Len(s) |-> i], Kept)
    IN  [k \in 1..Len(places) |-> s[places[k]]]

\* a5_collect.py:98-119  one turn of the loop over the batches; the API
\* answers with the items of some of the ids asked for
FetchBatch ==
    /\ pc = "fetch"
    /\ batch_start < Len(video_ids)
    /\ LET batch_ids == SubSeq(video_ids, batch_start + 1,
                               Min(batch_start + MaxResults, Len(video_ids)))
       IN  \/ RequestFails /\ UNCHANGED <<batch_start, fetched>>
           \/ \E keep \in SUBSET (1..Len(batch_ids)) :
                 LET ids == Pick(batch_ids, keep)
                     r == fetch_video_details([i \in 1..Len(ids) |-> ApiItem(ids[i])])
                 IN  /\ Execute
                     /\ IF r.exc # "none"
                        THEN pc' = "error" /\ err' = r.exc /\ UNCHANGED <<batch_start, fetched>>
                        ELSE /\ fetched' = fetched \o r.value
                             /\ batch_start' = batch_start + MaxResults
                             /\ UNCHANGED <<pc, err>>
    /\ UNCHANGED <<rankVars, corrVars, zipVars, srcVars, loadVars, cmpVars,
                   api_key, client_built, searchVars, saved>>

\* a5_collect.py:121-122  return videos
FetchDone ==
    /\ pc = "fetch"
    /\ batch_start >= Len(video_ids)
    /\ pc' = "save"
    /\ UNCHANGED <<err, rankVars, corrVars, zipVars, colVars, srcVars, loadVars, cmpVars>>

\* a5_collect.py:125-143
save_dataset ==
    /\ pc = "save"
    /\ saved' = TRUE
    /\ pc' = "done"
    /\ UNCHANGED <<err, rankVars, corrVars, zipVars, srcVars, loadVars, cmpVars,
                   api_key, client_built, n_requests, searchVars, batch_start, fetched>>

\* youtube_test.py:6-13  if API_KEY is None: raise ValueError
TestScript ==
    /\ pc = "test_script"
    /\ IF api_key = None
       THEN pc' = "error" /\ err' = "ValueError" /\ UNCHANGED client_built
       ELSE pc' = "test_request" /\ client_built' = TRUE /\ UNCHANGED err
    /\ UNCHANGED <<rankVars, corrVars, zipVars, srcVars, loadVars, cmpVars,
                   api_key, n_requests, searchVars, batch_start, fetched, saved>>

\* youtube_test.py:15-24
TestRequest ==
    /\ pc = "test_request"
    /\ \/ RequestFails
       \/ Execute /\ pc' = "test_done" /\ UNCHANGED err
    /\ UNCHANGED <<rankVars, corrVars, zipVars, srcVars, loadVars, cmpVars,
                   api_key, client_built, searchVars, batch_start, fetched, saved>>

NextCollect ==
    \/ get_youtube_client
    \/ SearchPage
    \/ SearchReturn
    \/ FetchBatch
    \/ FetchDone
    \/ save_dataset
    \/ TestScript
    \/ TestRequest

SpecCollect == InitCollect /\ [][NextCollect]_vars

KeyAbsent == api_key = None \/ api_key = ""

\* C14 as stated: with YOUTUBE_API_KEY unset or empty the run ends with an
\* exception, and no client is built and no request issued
C14_NoKeyNoRequest ==
    KeyAbsent =>
        /\ ~client_built
        /\ n_requests = 0
        /\ pc \in {"a5_main", "test_script", "error"}
        /\ pc = "error" => err \in {"RuntimeError", "ValueError"}

\* a5_collect.main does end so: with the key unset or empty no place of
\* main past get_youtube_client is reached
A5MainNeedsKey ==
    KeyAbsent => pc \notin {"search", "fetch", "save", "done"}

\* C15: once a search or video-details request has raised, the run is over:
\* no request is issued after it, the failed one included, and save_dataset
\* is never called
C15_FailFast ==
    [][ /\ err' = "HttpError" => (pc' = "error" /\ saved' = FALSE)
        /\ err = "HttpError" => (n_requests' = n_requests /\ saved' = FALSE) ]_vars

\* a video-details request has raised after ids were collected: the run has
\* ended with nothing saved
C15_Witness ==
    /\ pc = "error"
    /\ err = "HttpError"
    /\ Len(video_ids) > 0
    /\ n_requests >= 2
    /\ n_requests < MaxRequests
    /\ ~saved

NoDuplicate(s) == \A i, j \in 1..Len(s) : s[i] = s[j] => i = j

\* the ids of items that are not in ids, each at its first place in items
FirstNew(items, ids) ==
    LET IsFirstNew(i) == /\ ~Member(items[i], ids)
                         /\ \A k \in 1..(i - 1) : items[k] # items[i]
        places == SelectSeq([i \in 1..Len(items) |-> i], IsFirstNew)
    IN  [k \in 1..Len(places) |-> items[places[k]]]

\* C16: video_ids never holds an id twice, its elements are those of
\* seen_ids, and every page adds to its end the ids not seen before, in
\* the order the page has them first
C16_UniqueIds ==
    /\ [](NoDuplicate(video_ids) /\ Range(video_ids) = seen_ids)
    /\ [][ (pc = "search" /\ Len(video_ids) < TARGET_VIDEO_COUNT /\ err' = "none") =>
              video_ids' = video_ids \o FirstNew(response'.items, video_ids) ]_vars

\* the second page brought b2 and then repeated b1 of the first page
C16_Witness ==
    /\ n_requests = 2
    /\ video_ids = <<"b1", "b2">>
    /\ response.items = <<"b2", "b1">>
    /\ seen_ids = {"b1", "b2"}

\* search_video_ids has returned
SearchReturned == pc \in {"fetch", "save", "done"}

\* C17: search_video_ids returns with at least TARGET_VIDEO_COUNT ids or after
\* a response with no nextPageToken; with the target reached it issues no
\* request and returns the list as it is, which is at most one page minus
\* one id longer than the target
C17_TargetOrLastPage ==
    /\ [](SearchReturned =>
             /\ Len(video_ids) >= TARGET_VIDEO_COUNT \/ response.nextPageToken = None
             /\ Len(video_ids) <= TARGET_VIDEO_COUNT + MaxResults - 1)
    /\ [][ (pc = "search" /\ Len(video_ids) >= TARGET_VIDEO_COUNT) =>
              (n_requests' = n_requests /\ video_ids' = video_ids /\ pc' = "fetch") ]_vars
    /\ [][ SearchReturned => video_ids' = video_ids ]_vars

\* the list returned is one page minus one id longer than the target
C17_Witness ==
    /\ SearchReturned
    /\ Len(video_ids) = TARGET_VIDEO_COUNT + MaxResults - 1
    /\ response.nextPageToken # None

(***************************************************************************)
(* SpecCollectLive: the run of SpecCollect never stops while it has a step *)
(* to take; what the API answers is not constrained.                       *)
(***************************************************************************)
SpecCollectLive == SpecCollect /\ WF_vars(NextCollect)

\* C18 as stated: search_video_ids always returns, whatever the API answers:
\* a run in the loop of search_video_ids leaves it
C18_SearchTerminates == (pc = "search") ~> (pc # "search")

(***************************************************************************)
(* SpecIndices: s3.plot_viewcount_distributions picks num_days of the days *)
(* iter_youtube_days yielded with evenly_spaced_indices and plots each     *)
(* picked day that has a view count.                                       *)
(***************************************************************************)
MaxDays == 8

\* the day of 2015-01-i, as iter_youtube_days yields it
NthDay(i, vids) == [date |-> [ok |-> TRUE, y |-> 2015, m |-> 1, d |-> i], data |-> vids]

\* n days in date order; the day numbered quiet has no video
DaysOf(n, quiet) ==
    [i \in 1..n |-> NthDay(i, IF i = quiet THEN <<>> ELSE <<Video("b1", <<"2">>)>>)]

InitIndices ==
    /\ pc = "plot_start"
    /\ err = "none"
    /\ videos = <<>>
    /\ RankIdle
    /\ CorrIdle
    /\ NoZips
    /\ SrcIdle
    /\ ColIdle
    /\ \E n \in 0..MaxDays : \E quiet \in 0..n : yt_days = DaysOf(n, quiet)
    /\ sp_days = <<>>
    /\ rows = <<>>
    /\ yt_videos = <<>>
    /\ sp_tracks = <<>>
    /\ mapping = EmptyDict
    /\ t_idx = 1
    /\ best_yt_id = None
    /\ selected_dates = <<>>
    /\ d_idx = 1
    /\ plots = <<>>
    /\ num_days \in 1..MaxDays
    /\ indices = <<>>

\* s3.py:217-224
PickIndices ==
    /\ pc = "plot_start"
    /\ IF Len(yt_days) = 0
       THEN /\ pc' = "plot_returned"
            /\ UNCHANGED <<num_days, indices>>
       ELSE /\ pc' = "plot_days"
            /\ num_days' = Min(num_days, Len(yt_days))
            /\ indices' = evenly_spaced_indices(Len(yt_days), num_days')
    /\ UNCHANGED <<err, rankVars, corrVars, zipVars, colVars, srcVars, loadVars, mapVars,
                   selected_dates, d_idx, plots>>

\* s3.py:225-244  one turn of the loop over indices
PlotDay ==
    /\ pc = "plot_days"
    /\ d_idx <= Len(indices)
    /\ IF indices[d_idx] + 1 \notin 1..Len(yt_days)
       THEN /\ pc' = "error"
            /\ err' = "IndexError"
            /\ UNCHANGED <<views_sorted, ranks, d_idx, plots>>
       ELSE /\ d_idx' = d_idx + 1
            /\ UNCHANGED <<pc, err>>
            /\ LET day == yt_days[indices[d_idx] + 1]
                   views == get_youtube_view_counts_for_day(day.data)
               IN  IF Len(views) = 0
                   THEN UNCHANGED <<views_sorted, ranks, plots>>
                   ELSE /\ views_sorted' = ViewsSorted(views)
                        /\ ranks' = RankRange(ViewsSorted(views))
                        /\ plots' = Append(plots, day.date)
    /\ UNCHANGED <<videos, yt_sorted, yt_rank, titles, corrVars, zipVars, colVars, srcVars,
                   loadVars, mapVars, selected_dates, num_days, indices>>

\* s3.py:246-262  the loop is through
PlotDone ==
    /\ pc = "plot_days"
    /\ d_idx > Len(indices)
    /\ pc' = "plot_returned"
    /\ UNCHANGED <<err, rankVars, corrVars, zipVars, colVars, srcVars, loadVars, cmpVars>>

NextIndices == PickIndices \/ PlotDay \/ PlotDone

SpecIndices == InitIndices /\ [][NextIndices]_vars

\* the indices have been computed
Picked == pc \in {"plot_days", "plot_returned"} /\ Len(yt_days) > 0

Increasing(s) == \A i, j \in 1..Len(s) : i < j => s[i] < s[j]

\* C19: for 1 <= k <= n, evenly_spaced_indices(n, k) has exactly k indices,
\* each in 0..n-1, strictly increasing, the first 0 and, when k >= 2, the
\* last n-1; the loop over them never indexes out of range and plots no
\* day twice
C19_EvenlySpaced ==
    /\ err # "IndexError"
    /\ Picked =>
          /\ num_days \in 1..Len(yt_days)
          /\ Len(indices) = num_days
          /\ \A i \in 1..Len(indices) : indices[i] \in 0..(Len(yt_days) - 1)
          /\ Increasing(indices)
          /\ indices[1] = 0
          /\ num_days >= 2 => indices[num_days] = Len(yt_days) - 1
          /\ \A i, j \in 1..Len(plots) : i < j => DateKey(plots[i]) < DateKey(plots[j])

\* six days, three asked for: the middle index is round(2.5) = 2, and all
\* three days have been plotted
C19_Witness ==
    /\ pc = "plot_returned"
    /\ Len(yt_days) = 6
    /\ indices = <<0, 2, 5>>
    /\ Len(plots) = 3

====
